---- MODULE Spec2Model ----
(***************************************************************************)
(* Model of pninja_search_tool.py: the Tk handlers of ParcelninjaSearchTool *)
(* (start_search, stop_search, reset_ui, process_api_queue), which all run  *)
(* on the Tk main loop and are atomic with respect to each other, and the   *)
(* worker threads running run_api_search, which interleave with them.       *)
(*                                                                         *)
(* Text is a sequence of one-character strings.  A dict is a record.  The   *)
(* widgets that only display (log_text, status_label, the tree) are left    *)
(* out; the button states, which decide what the operator can invoke, are   *)
(* kept.                                                                    *)
(***************************************************************************)
EXTENDS Integers, Sequences, FiniteSets, TLC

\* ------------------------------------------------------------------ bounds
MaxTerms == 2       \* terms in the hands of live worker threads at one time
MaxItems == 2       \* longest list a windowed search returns
MaxBatch == 2       \* longest batch handed to the table and the export

\* A worker thread is named by the slot it runs in.  A slot is free again
\* once its thread has ended and the consumer has handled all its events.
Runs == {1, 2}

\* What the operator types into the term entry: nothing, a blank, only a
\* separator, one term, two equal terms with blanks around them.
RawInputs ==
  {<<>>, <<" ">>, <<",">>, <<" ", "a">>, <<"a", ",", " ", "a", " ">>}

StoreNames == {"Diesel"}

VARIABLES
  search_type_var,  \* self.search_type_var, lower-cased as line 215 reads it
  search_field_var, \* self.search_field_var
  is_searching,     \* self.is_searching
  stop_event,       \* self.stop_event (threading.Event): TRUE when set
  results_data,     \* self.results_data
  api_queue,        \* self.api_queue (queue.Queue), head first
  search_button,    \* state of each button: "normal" or "disabled"
  stop_button,
  refresh_button,
  export_button,
  poll_scheduled,   \* an after(100, process_api_queue) callback is pending
  pc,               \* per worker: "idle", "start", "call", "done", "dead"
  args,             \* per worker: the arguments of run_api_search
  index,            \* per worker: enumerate position, 1-based
  results,          \* per worker: the local list results
  resps,            \* history: per worker, the responses its calls received
  pub,              \* history: per worker, the events it put on api_queue
  handled,          \* history: per worker, its events the consumer handled
  sig,              \* history: per running worker, where it stood when
                    \* stop_search first set stop_event during its run
  tree,             \* self.tree: columns and rows (SpecRecords; Spec leaves
                    \* the display out)
  last_export       \* history: what the last call of export_to_csv did
                    \* (SpecRecords)

vars == <<search_type_var, search_field_var, is_searching, stop_event,
          results_data, api_queue, search_button, stop_button,
          refresh_button, export_button, poll_scheduled,
          pc, args, index, results, resps, pub, handled, sig,
          tree, last_export>>

export_vars == <<tree, last_export>>

\* what run_api_search and its history keep
worker_vars == <<pc, args, index, results, resps, pub, handled, sig>>

selection_vars == <<search_type_var, search_field_var>>

ui_vars == <<search_type_var, search_field_var, is_searching, stop_event,
             results_data, search_button, stop_button, refresh_button,
             export_button>>

\* ------------------------------------------------------------ text helpers
IsSpace(c) == c \in {" ", "\t", "\n"}

IsSep(c) == c \in {",", "\n"}

RECURSIVE LStrip(_)
LStrip(s) ==
  IF s = <<>> THEN <<>>
  ELSE IF IsSpace(Head(s)) THEN LStrip(Tail(s)) ELSE s

RECURSIVE RStrip(_)
RStrip(s) ==
  IF s = <<>> THEN <<>>
  ELSE IF IsSpace(s[Len(s)]) THEN RStrip(SubSeq(s, 1, Len(s) - 1)) ELSE s

\* str.strip()
Strip(s) == RStrip(LStrip(s))

\* re.split(r'[,\n]', s): cur is the piece being read
RECURSIVE ReSplit(_, _)
ReSplit(s, cur) ==
  IF s = <<>> THEN <<cur>>
  ELSE IF IsSep(Head(s)) THEN <<cur>> \o ReSplit(Tail(s), <<>>)
  ELSE ReSplit(Tail(s), Append(cur, Head(s)))

NonBlank(piece) == Strip(piece) # <<>>

\* [term.strip() for term in re.split(r'[,\n]', raw) if term.strip()]
ParseTerms(raw) ==
  LET kept == SelectSeq(ReSplit(raw, <<>>), NonBlank)
  IN  [i \in 1..Len(kept) |-> Strip(kept[i])]

\* _update_search_fields: the fields offered for a search type
FieldsOf(search_type) ==
  IF search_type = "outbound" THEN {"Client ID", "Channel ID"}
  ELSE {"Client ID", "Supplier Reference"}

SearchTypes == {"outbound", "inbound"}

\* ------------------------------------------------------- the remote service
\* What one requests.get call can end in: a RequestException, or a response
\* with a status and, for 200, a JSON body.  shape "object" is a JSON object
\* (for a windowed search one whose list holds n objects); shape "other" is
\* any JSON the code cannot use as one (a list, a string, a list under the
\* results key holding something that is no object).
Exception == [kind |-> "exception", status |-> 0, shape |-> "none", n |-> 0]

Http(status, shape, n) ==
  [kind |-> "http", status |-> status, shape |-> shape, n |-> n]

PointResponses ==
  {Exception, Http(200, "object", 1), Http(200, "other", 0),
   Http(404, "none", 0), Http(500, "none", 0)}

\* Every status but 200 takes the same branch of the windowed search
\* (line 324); 404 stands for them.
WindowedResponses ==
  {Exception, Http(200, "other", 0), Http(404, "none", 0)}
  \cup {Http(200, "object", n) : n \in 0..MaxItems}

\* line 271: the direct lookup is used for outbound searches by Client ID
IsPointLookup(a) == a.search_type = "outbound" /\ a.search_field = "Client ID"

Responses(a) == IF IsPointLookup(a) THEN PointResponses ELSE WindowedResponses

\* ------------------------------------------------------------------ events
LogEvent(msg, level, r) ==
  [type |-> "log", msg |-> msg, level |-> level, run |-> r]

\* line 265: the progress notice is put without a level
ProgressEvent(i, total, term, r) ==
  [type |-> "log",
   msg |-> [text |-> "Searching", index |-> i, total |-> total, term |-> term],
   run |-> r]

DoneEvent(batch, r) == [type |-> "done", results |-> batch, run |-> r]

StopNotice(r) == LogEvent([text |-> "Search stopped by user."], "WARN", r)

\* lines 297-301: the parameter name looked up for the chosen field
ApiSearchField(search_field) ==
  CASE search_field = "Client ID" -> "clientId"
    [] search_field = "Channel ID" -> "channelId"
    [] search_field = "Supplier Reference" -> "supplierReference"
    [] OTHER -> "search"

\* lines 272-273, 277 and 293-312: the request handed to requests.get.  The
\* dates of the window are left out of the values.  api_search_field is
\* computed (lines 297-301) but params is built without it (lines 303-308).
Request(a, term) ==
  IF IsPointLookup(a)
  THEN [strategy |-> "point", url |-> "/outbounds/0",
        headers |-> [Accept |-> "application/json", XClientId |-> term],
        params |-> <<>>]
  ELSE [strategy |-> "windowed",
        url |-> IF a.search_type = "outbound" THEN "/outbounds" ELSE "/inbounds",
        headers |-> [Accept |-> "application/json"],
        params |-> [startDate |-> "today-730d", endDate |-> "today",
                    search |-> term, pageSize |-> 100]]

\* lines 275 and 310: the request is announced at DEBUG level
RequestEvent(a, term, r) ==
  LogEvent([text |-> "GET", url |-> Request(a, term).url, term |-> term],
           "DEBUG", r)

\* A faulty variant of Placeholder, losing the term: the synthetic record
\* of an unsatisfied term (C11) rests on it.
BarePlaceholder(term, store, i) ==
  [shipment_id_searched |-> <<>>, status_error |-> "Not Found",
   store_name |-> store, at |-> i]

\* ----------------------------------------------------------------- records
\* The field at is history: the position of the term whose processing
\* appended the record.  item is the record's place in the remote response.
Payload(store, i, j) == [store_name |-> store, item |-> j, at |-> i]

Placeholder(term, store, i) ==
  [shipment_id_searched |-> term, status_error |-> "Not Found",
   store_name |-> store, at |-> i]

NetworkErrorRecord(term, store, i) ==
  [shipment_id_searched |-> term, status_error |-> "Network Error",
   store_name |-> store, at |-> i]

\* ------------------------------------------------- run_api_search, per term
\* The outcome of the code between the request and the placeholder:
\* add (records appended), logs (events put), found (found_for_term) and
\* raised: "none", "RequestException" or "fault" (any other exception).
Outcome(add, logs, found, raised) ==
  [add |-> add, logs |-> logs, found |-> found, raised |-> raised]

PointLookup(a, term, i, resp, r) ==
  IF resp.kind = "exception" THEN Outcome(<<>>, <<>>, FALSE, "RequestException")
  ELSE IF resp.status = 200 THEN
    IF resp.shape = "object"
    THEN Outcome(<<Payload(a.store, i, 1)>>, <<>>, TRUE, "none")
    ELSE Outcome(<<>>, <<>>, FALSE, "fault")
  ELSE IF resp.status = 404 THEN
    Outcome(<<>>, <<LogEvent([text |-> "not found (404)", term |-> term],
                             "WARN", r)>>, FALSE, "none")
  ELSE
    Outcome(<<>>, <<LogEvent([text |-> "Error", term |-> term,
                              status |-> resp.status], "ERROR", r)>>,
            FALSE, "none")

WindowedSearch(a, term, i, resp, r) ==
  IF resp.kind = "exception" THEN Outcome(<<>>, <<>>, FALSE, "RequestException")
  ELSE IF resp.status = 200 THEN
    IF resp.shape # "object" THEN Outcome(<<>>, <<>>, FALSE, "fault")
    ELSE IF resp.n > 0
    THEN Outcome([j \in 1..resp.n |-> Payload(a.store, i, j)], <<>>, TRUE, "none")
    ELSE Outcome(<<>>, <<LogEvent([text |-> "returned 0 results", term |-> term],
                                  "WARN", r)>>, FALSE, "none")
  ELSE
    Outcome(<<>>, <<LogEvent([text |-> "Error", term |-> term,
                              status |-> resp.status], "ERROR", r)>>,
            FALSE, "none")

\* A faulty variant of Extend, putting new records at the front: the order
\* of the batch (C4) rests on the appends going to the end.
Prepend(list, add) == add \o list

\* results.append / the for loop of appends: new records go to the end
Extend(list, add) == list \o add

\* A faulty variant of NeedsPlaceholder, never adding the placeholder: the
\* coverage of the batch (C3) rests on it.
NeverPlaceholder(found) == FALSE

\* line 327
NeedsPlaceholder(found) == ~found

\* The try block for one term, and its except clause.  dead: an exception
\* other than requests.RequestException left the try block and the thread.
ProcessTerm(a, term, i, resp, r) ==
  LET o == IF IsPointLookup(a) THEN PointLookup(a, term, i, resp, r)
           ELSE WindowedSearch(a, term, i, resp, r)
  IN  IF o.raised = "fault" THEN [add |-> <<>>, logs |-> <<>>, dead |-> TRUE]
      ELSE IF o.raised = "RequestException" THEN
        [add  |-> <<NetworkErrorRecord(term, a.store, i)>>,
         logs |-> <<LogEvent([text |-> "Exception", term |-> term], "ERROR", r)>>,
         dead |-> FALSE]
      ELSE
        [add  |-> IF NeedsPlaceholder(o.found)
                  THEN Extend(o.add, <<Placeholder(term, a.store, i)>>)
                  ELSE o.add,
         logs |-> o.logs,
         dead |-> FALSE]

\* queue.Queue.put of several events in a row
Put(q, events) == q \o events

\* line 261
StopRequested(flag) == flag

\* A faulty variant of Boundary, issuing the request of a term twice: the
\* one call per position (C14) rests on the loop head.
BoundaryTwice(a, i, batch, flag, r) ==
  IF i > Len(a.terms)
  THEN [events |-> <<DoneEvent(batch, r)>>, ends |-> TRUE]
  ELSE IF StopRequested(flag)
  THEN [events |-> <<StopNotice(r), DoneEvent(batch, r)>>, ends |-> TRUE]
  ELSE [events |-> <<ProgressEvent(i, Len(a.terms), a.terms[i], r),
                     RequestEvent(a, a.terms[i], r),
                     RequestEvent(a, a.terms[i], r)>>,
        ends |-> FALSE]

\* The head of the for loop with i the position to process next (lines
\* 259-265, and 344 after the loop): what the worker puts on the queue
\* there and where it goes.  ends: the batch was put and the thread returns.
Boundary(a, i, batch, flag, r) ==
  IF i > Len(a.terms)
  THEN [events |-> <<DoneEvent(batch, r)>>, ends |-> TRUE]
  ELSE IF StopRequested(flag)
  THEN [events |-> <<StopNotice(r), DoneEvent(batch, r)>>, ends |-> TRUE]
  ELSE [events |-> <<ProgressEvent(i, Len(a.terms), a.terms[i], r),
                     RequestEvent(a, a.terms[i], r)>>,
        ends |-> FALSE]

\* ------------------------------------------------- records as dictionaries
\* A dict is a sequence of items [k, v] with distinct keys, in the dict's
\* enumeration order.  A key is text.  A value is a string, a list or a
\* nested dict; the string json.dumps makes of a list is told apart from
\* other strings by its kind only, and is a string to every isinstance test.
Item(k, v) == [k |-> k, v |-> v]

Scalar(val) == [kind |-> "scalar", val |-> val]

ListOf(elems) == [kind |-> "list", elems |-> elems]

DictValue(items) == [kind |-> "dict", items |-> items]

Keys(d) == {d[n].k : n \in 1..Len(d)}

\* d[k], for k in d
Lookup(d, k) == d[CHOOSE n \in 1..Len(d) : d[n].k = k].v

\* d.get(k, default)
Get(d, k, default) == IF k \in Keys(d) THEN Lookup(d, k) ELSE default

\* d[k] = v: a key already there keeps its place
DictSet(d, k, v) ==
  IF k \in Keys(d)
  THEN [n \in 1..Len(d) |-> IF d[n].k = k THEN Item(k, v) ELSE d[n]]
  ELSE Append(d, Item(k, v))

\* d.pop(k), the dict that is left
DictPop(d, k) == SelectSeq(d, LAMBDA it : it.k # k)

\* dict(items): a later item of the same key replaces the value
RECURSIVE DictOf(_, _)
DictOf(items, acc) ==
  IF items = <<>> THEN acc
  ELSE DictOf(Tail(items), DictSet(acc, Head(items).k, Head(items).v))

\* the code points of the characters of the keys, in increasing order
Alphabet ==
  <<".", "S", "_", "a", "b", "c", "d", "e", "h", "i", "m", "n", "o", "p",
    "r", "s", "t", "u">>

Code(c) == CHOOSE n \in 1..Len(Alphabet) : Alphabet[n] = c

\* s < t for str
RECURSIVE StrLess(_, _)
StrLess(s, t) ==
  IF t = <<>> THEN FALSE
  ELSE IF s = <<>> THEN TRUE
  ELSE IF Head(s) = Head(t) THEN StrLess(Tail(s), Tail(t))
  ELSE Code(Head(s)) < Code(Head(t))

\* sorted(keys)
RECURSIVE Sorted(_)
Sorted(keys) ==
  IF keys = {} THEN <<>>
  ELSE LET least == CHOOSE k \in keys : \A o \in keys \ {k} : StrLess(k, o)
       IN  <<least>> \o Sorted(keys \ {least})

\* ------------------------------------------------------------ _flatten_dict
Sep == <<".">>

\* A faulty variant of NewKey, joining also under an empty parent key: the
\* idempotence of flattening (C19) rests on line 430.
AlwaysJoined(parent_key, k) == parent_key \o Sep \o k

\* line 430
NewKey(parent_key, k) ==
  IF parent_key # <<>> THEN parent_key \o Sep \o k ELSE k

\* line 434: json.dumps(v), a string
JsonDumps(v) == [kind |-> "json", elems |-> v.elems]

\* lines 428-436: the list items, and line 437: dict(items)
RECURSIVE FlattenItems(_, _)
FlattenItems(d, parent_key) ==
  IF d = <<>> THEN <<>>
  ELSE LET new_key == NewKey(parent_key, Head(d).k)
           v == Head(d).v
           here == IF v.kind = "dict"
                   THEN DictOf(FlattenItems(v.items, new_key), <<>>)
                   ELSE IF v.kind = "list"
                   THEN <<Item(new_key, JsonDumps(v))>>
                   ELSE <<Item(new_key, v)>>
       IN  here \o FlattenItems(Tail(d), parent_key)

\* lines 426-437
FlattenDict(d) == DictOf(FlattenItems(d, <<>>), <<>>)

\* ------------------------------------------------------ update_results_table
StoreNameKey == <<"_", "s", "t", "o", "r", "e", "_", "n", "a", "m", "e">>

StoreKey == <<"S", "t", "o", "r", "e">>

StatusErrorKey == <<"s", "t", "a", "t", "u", "s", "_", "e", "r", "r", "o", "r">>

TermKey ==
  <<"s", "h", "i", "p", "m", "e", "n", "t", "_", "i", "d", "_",
    "s", "e", "a", "r", "c", "h", "e", "d">>

ItemKey == <<"i", "t", "e", "m">>

\* the empty string
Empty == Scalar(<<>>)

\* lines 394-398 and 457-459: flatten, then _store_name becomes Store
FlatRecord(record) ==
  LET flat == FlattenDict(record)
  IN  IF StoreNameKey \in Keys(flat)
      THEN DictSet(DictPop(flat, StoreNameKey), StoreKey,
                   Lookup(flat, StoreNameKey))
      ELSE flat

FlatResults(batch) == [n \in 1..Len(batch) |-> FlatRecord(batch[n])]

AllKeys(flat_results) ==
  UNION {Keys(flat_results[n]) : n \in 1..Len(flat_results)}

\* A faulty variant of SortedHeaders, trusting the records to bring the
\* Store key: the first column (C15) rests on lines 391 and 404.
HeadersOfKeys(flat_results) == Sorted(AllKeys(flat_results))

\* lines 388-404: all_headers is a set holding Store from the start
SortedHeaders(flat_results) ==
  <<StoreKey>> \o Sorted((AllKeys(flat_results) \cup {StoreKey}) \ {StoreKey})

\* line 416 and csv.DictWriter's row (restval ''): one cell per column
RowValues(record, headers) ==
  [n \in 1..Len(headers) |-> Get(record, headers[n], Empty)]

\* lines 418-420
RowTag(record) ==
  IF StatusErrorKey \in Keys(record) /\ Lookup(record, StatusErrorKey) # Empty
  THEN "error" ELSE "normal"

NoTree == [columns |-> <<>>, rows |-> <<>>]

\* lines 376-424: the table shown for a batch
UpdateResultsTable(batch) ==
  IF batch = <<>> THEN NoTree
  ELSE LET flat_results == FlatResults(batch)
           sorted_headers == SortedHeaders(flat_results)
       IN  [columns |-> sorted_headers,
            rows |-> [n \in 1..Len(flat_results) |->
                        [values |-> RowValues(flat_results[n], sorted_headers),
                         tag |-> RowTag(flat_results[n])]]]

\* ------------------------------------------------------------ export_to_csv
\* A faulty variant of ExportHeaders, leaving the keys in the order met: the
\* agreement of the file with the table (C16) rests on line 462.
RECURSIVE InOrderMet(_)
InOrderMet(flat_results) ==
  IF flat_results = <<>> THEN <<StoreKey>>
  ELSE LET before == InOrderMet(SubSeq(flat_results, 1, Len(flat_results) - 1))
           last == flat_results[Len(flat_results)]
           fresh == SelectSeq([n \in 1..Len(last) |-> last[n].k],
                              LAMBDA k : \A m \in 1..Len(before) : before[m] # k)
       IN  before \o fresh

\* line 462
ExportHeaders(flat_results) ==
  <<StoreKey>> \o Sorted({k \in AllKeys(flat_results) : k # StoreKey})

\* lines 464-467: the header and one row per record.  Every value is a
\* string by now, which the writer puts out as it is.
CsvFile(batch) ==
  LET flat_results == FlatResults(batch)
      all_headers == ExportHeaders(flat_results)
  IN  [header |-> all_headers,
       rows |-> [n \in 1..Len(flat_results) |->
                   RowValues(flat_results[n], all_headers)]]

\* A faulty variant of HasData, letting an empty batch through (C17).
AlwaysHasData(batch) == TRUE

\* line 441
HasData(batch) == batch # <<>>

\* A faulty variant of Report, announcing success whatever happened (C18).
AlwaysSuccess(io) == [title |-> "Success", cause |-> "none"]

\* lines 469 and 472-474: the message box shown after the try block
Report(io) ==
  IF io = "ok" THEN [title |-> "Success", cause |-> "none"]
  ELSE [title |-> "Export Error", cause |-> io]

\* what the file dialog returns ("" when it is dismissed), and what open
\* and the writes can end in
FilePaths == {"", "out.csv"}

IoResults == {"ok", "open: PermissionError", "write: ENOSPC"}

NoFile == [header |-> <<>>, rows |-> <<>>, state |-> "none"]

NoExport ==
  [report |-> [title |-> "none", cause |-> "none"], asked |-> FALSE,
   opened |-> FALSE, file |-> NoFile, io |-> "none"]

\* lines 439-475: what one call does besides leaving the window's state as
\* it is: the message box, whether a path was asked for, whether the file
\* was opened, and the file.  io is history: what the file system did.
ExportToCsv(batch, filepath, io) ==
  IF ~HasData(batch)
  THEN [report |-> [title |-> "No Data", cause |-> "none"], asked |-> FALSE,
        opened |-> FALSE, file |-> NoFile, io |-> "none"]
  ELSE IF filepath = ""
  THEN [report |-> [title |-> "none", cause |-> "none"], asked |-> TRUE,
        opened |-> FALSE, file |-> NoFile, io |-> "none"]
  ELSE [report |-> Report(io), asked |-> TRUE,
        opened |-> io \in {"ok", "write: ENOSPC"},
        file |-> IF io = "ok"
                 THEN [header |-> CsvFile(batch).header,
                       rows |-> CsvFile(batch).rows, state |-> "written"]
                 ELSE IF io = "write: ENOSPC"
                 THEN [header |-> <<>>, rows |-> <<>>, state |-> "truncated"]
                 ELSE NoFile,
        io |-> io]

\* The records of the search model as the dicts they stand for; the history
\* field at is no part of the dict.  A name the model keeps whole is a text
\* of one piece.
AsDict(rec) ==
  IF "item" \in DOMAIN rec
  THEN <<Item(ItemKey, Scalar(<<"i", "t", "e", "m">>)),
         Item(StoreNameKey, Scalar(<<rec.store_name>>))>>
  ELSE <<Item(TermKey, Scalar(rec.shipment_id_searched)),
         Item(StatusErrorKey, Scalar(<<rec.status_error>>)),
         Item(StoreNameKey, Scalar(<<rec.store_name>>))>>

\* -------------------------------------------------------------- initial state
NoSig == [pc |-> "none", index |-> 0]

NoArgs == [store |-> "", search_type |-> "", search_field |-> "", terms |-> <<>>]

\* __init__ (lines 57-63) and _create_widgets (lines 101-131, 156).  The
\* search type and field are the operator's selection, made before the
\* searches and kept through them.
Init ==
  /\ search_type_var \in SearchTypes
  /\ search_field_var \in FieldsOf(search_type_var)
  /\ is_searching = FALSE
  /\ stop_event = FALSE
  /\ results_data = <<>>
  /\ api_queue = <<>>
  /\ search_button = "normal"
  /\ stop_button = "disabled"
  /\ refresh_button = "normal"
  /\ export_button = "disabled"
  /\ poll_scheduled = TRUE
  /\ pc = [r \in Runs |-> "idle"]
  /\ args = [r \in Runs |-> NoArgs]
  /\ index = [r \in Runs |-> 1]
  /\ results = [r \in Runs |-> <<>>]
  /\ resps = [r \in Runs |-> <<>>]
  /\ pub = [r \in Runs |-> <<>>]
  /\ handled = [r \in Runs |-> <<>>]
  /\ sig = [r \in Runs |-> NoSig]
  /\ tree = NoTree
  /\ last_export = NoExport

\* ------------------------------------------------------------- start_search
\* line 219: the only check made on the raw input
InputAccepted(raw) == Strip(raw) # <<>>

\* A thread that has ended and whose events were all handled has left
\* nothing behind: its locals are gone, and its history is forgotten when
\* the next thread is started.
Ended(r) == pc[r] \in {"done", "dead"} /\ handled[r] = pub[r]

FreeSlot(r) == pc[r] = "idle" \/ Ended(r)

\* terms of the threads that still hold a slot
LiveTerms ==
  LET n(r) == IF FreeSlot(r) THEN 0 ELSE Len(args[r].terms)
  IN  n(1) + n(2)

\* per-worker state after a launch into slot r
Launch(f, r, fresh, blank) ==
  [q \in Runs |-> IF q = r THEN fresh ELSE IF Ended(q) THEN blank ELSE f[q]]

\* lines 212-251.  The store is always found: store_var is a read-only
\* combobox over the loaded stores.  A blank input shows a warning and
\* returns.  Nothing in the handler looks at is_searching.
StartSearch(raw, search_type, search_field, store) ==
  IF ~InputAccepted(raw) THEN UNCHANGED vars
  ELSE
    /\ LiveTerms + Len(ParseTerms(raw)) <= MaxTerms
    /\ \E r \in Runs :
         /\ FreeSlot(r)
         /\ \A q \in Runs : FreeSlot(q) => r <= q
         /\ pc' = Launch(pc, r, "start", "idle")
         /\ args' = Launch(args, r,
                      [store |-> store, search_type |-> search_type,
                       search_field |-> search_field,
                       terms |-> ParseTerms(raw)], NoArgs)
         /\ index' = Launch(index, r, 1, 1)
         /\ results' = Launch(results, r, <<>>, <<>>)
         /\ resps' = Launch(resps, r, <<>>, <<>>)
         /\ pub' = Launch(pub, r, <<>>, <<>>)
         /\ handled' = Launch(handled, r, <<>>, <<>>)
         /\ sig' = Launch(sig, r, NoSig, NoSig)
    /\ is_searching' = TRUE
    /\ stop_event' = FALSE
    /\ search_button' = "disabled"
    /\ stop_button' = "normal"
    /\ refresh_button' = "disabled"
    /\ export_button' = "disabled"
    /\ results_data' = <<>>
    /\ UNCHANGED <<selection_vars, api_queue, poll_scheduled, export_vars>>

\* line 124: the Search button, while it is enabled
ClickSearch ==
  /\ search_button = "normal"
  /\ \E raw \in RawInputs, store \in StoreNames :
       StartSearch(raw, search_type_var, search_field_var, store)

\* line 118: <Return> in the term entry, which no handler ever disables
PressReturn ==
  \E raw \in RawInputs, store \in StoreNames :
    StartSearch(raw, search_type_var, search_field_var, store)

\* -------------------------------------------------------------- stop_search
\* History: the first stop request made while worker r is running finds it
\* before its first boundary ("start") or with a call in flight ("call").
SigAfterStop ==
  [r \in Runs |->
     IF is_searching /\ pc[r] \in {"start", "call"} /\ sig[r] = NoSig
     THEN [pc |-> pc[r], index |-> index[r]]
     ELSE sig[r]]

\* lines 204-210
ClickStop ==
  /\ stop_button = "normal"
  /\ stop_event' = (IF is_searching THEN TRUE ELSE stop_event)
  /\ stop_button' = (IF is_searching THEN "disabled" ELSE stop_button)
  /\ sig' = SigAfterStop
  /\ UNCHANGED <<selection_vars, is_searching, results_data, api_queue,
                 search_button, refresh_button, export_button, poll_scheduled,
                 pc, args, index, results, resps, pub, handled, export_vars>>

\* ----------------------------------------------------------------- reset_ui
\* lines 182-202, stop_search (lines 204-210) included
ClickReset ==
  /\ refresh_button = "normal"
  /\ stop_event' = (IF is_searching THEN TRUE ELSE stop_event)
  /\ sig' = SigAfterStop
  /\ results_data' = <<>>
  /\ export_button' = "disabled"
  /\ search_button' = "normal"
  /\ stop_button' = "disabled"
  /\ UNCHANGED <<selection_vars, is_searching, api_queue, refresh_button,
                 poll_scheduled, pc, args, index, results, resps, pub, handled,
                 export_vars>>

\* ----------------------------------------------------------- run_api_search
\* The worker reads shared state only at the head of the loop (stop_event)
\* and writes it only by putting events, so the code from one requests.get
\* to the next is one step: the stop check is made as the response arrives.

\* lines 253-265: the thread starts and reaches the head of the loop
EnterLoop(r) ==
  /\ pc[r] = "start"
  /\ LET b == Boundary(args[r], index[r], results[r], stop_event, r) IN
       /\ api_queue' = Put(api_queue, b.events)
       /\ pub' = [pub EXCEPT ![r] = @ \o b.events]
       /\ pc' = [pc EXCEPT ![r] = IF b.ends THEN "done" ELSE "call"]
       /\ sig' = [sig EXCEPT ![r] = IF b.ends THEN NoSig ELSE @]
  /\ UNCHANGED <<ui_vars, poll_scheduled, args, index, results, resps, handled,
                 export_vars>>

\* lines 277-341, then the head of the loop again: requests.get returns or
\* raises, the rest of the loop body runs, and the next term is begun or
\* the batch is put
CallReturn(r) ==
  /\ pc[r] = "call"
  /\ \E resp \in Responses(args[r]) :
       LET o == ProcessTerm(args[r], args[r].terms[index[r]], index[r], resp, r)
           batch == Extend(results[r], o.add)
           b == Boundary(args[r], index[r] + 1, batch, stop_event, r)
       IN  /\ resps' = [resps EXCEPT ![r] = Append(@, resp)]
           /\ IF o.dead
              THEN /\ pc' = [pc EXCEPT ![r] = "dead"]
                   /\ sig' = [sig EXCEPT ![r] = NoSig]
                   /\ UNCHANGED <<api_queue, pub, results, index>>
              ELSE /\ pc' = [pc EXCEPT ![r] = IF b.ends THEN "done" ELSE "call"]
                   /\ sig' = [sig EXCEPT ![r] = IF b.ends THEN NoSig ELSE @]
                   /\ results' = [results EXCEPT ![r] = batch]
                   /\ index' = [index EXCEPT ![r] = @ + 1]
                   /\ api_queue' = Put(api_queue, o.logs \o b.events)
                   /\ pub' = [pub EXCEPT ![r] = @ \o o.logs \o b.events]
  /\ UNCHANGED <<ui_vars, poll_scheduled, args, handled, export_vars>>

\* -------------------------------------------------------- process_api_queue
\* A faulty variant of GetNowait, taking the newest event: the order of
\* delivery (C10) rests on the queue being first in, first out.
GetLast(q) == [msg |-> q[Len(q)], rest |-> SubSeq(q, 1, Len(q) - 1)]

\* line 350: get_nowait takes the oldest event
GetNowait(q) == [msg |-> Head(q), rest |-> Tail(q)]

\* lines 352-369: what handling one event does to the window
HandleMsg(ui, msg) ==
  IF msg.type = "log"
  THEN [ui EXCEPT !.handled[msg.run] = Append(@, msg)]
  ELSE [ui EXCEPT !.handled[msg.run] = Append(@, msg),
                  !.results_data = msg.results,
                  !.is_searching = FALSE,
                  !.search_button = "normal",
                  !.stop_button = "disabled",
                  !.refresh_button = "normal",
                  !.export_button = IF msg.results # <<>> THEN "normal" ELSE @]

\* lines 348-372: the loop runs until get_nowait raises queue.Empty
RECURSIVE Drain(_, _)
Drain(ui, q) ==
  IF q = <<>> THEN ui
  ELSE Drain(HandleMsg(ui, GetNowait(q).msg), GetNowait(q).rest)

\* lines 373-374: the finally clause schedules the next tick
Reschedule(scheduled) == TRUE

\* lines 346-374: one tick of the poller
Tick ==
  /\ poll_scheduled
  /\ LET ui == Drain([handled |-> handled, results_data |-> results_data,
                      is_searching |-> is_searching,
                      search_button |-> search_button,
                      stop_button |-> stop_button,
                      refresh_button |-> refresh_button,
                      export_button |-> export_button], api_queue)
     IN  /\ handled' = ui.handled
         /\ results_data' = ui.results_data
         /\ is_searching' = ui.is_searching
         /\ search_button' = ui.search_button
         /\ stop_button' = ui.stop_button
         /\ refresh_button' = ui.refresh_button
         /\ export_button' = ui.export_button
  /\ api_queue' = <<>>
  /\ poll_scheduled' = Reschedule(poll_scheduled)
  /\ UNCHANGED <<selection_vars, stop_event, pc, args, index, results, resps,
                 pub, sig, export_vars>>

\* export_to_csv reads results_data and writes nothing the search uses; it
\* and the table are in SpecRecords below, on every batch that can be held.
\* --------------------------------------------------------------------- spec
Next ==
  \/ ClickSearch
  \/ PressReturn
  \/ ClickStop
  \/ ClickReset
  \/ Tick
  \/ \E r \in Runs : EnterLoop(r)
  \/ \E r \in Runs : CallReturn(r)

Spec == Init /\ [][Next]_vars

\* The poller reschedules itself every 100 ms (line 374), a started thread
\* gets to run, and every requests.get returns or raises within its timeout
\* (lines 277, 312).  Nothing obliges the operator to act.
FairSpec ==
  /\ Spec
  /\ WF_vars(Tick)
  /\ \A r \in Runs : WF_vars(EnterLoop(r)) /\ WF_vars(CallReturn(r))

\* ------------------------------------------- the table and the export alone
\* Records as the remote service can return them and as the worker makes
\* them: nested, with a list, with a dotted key that meets a nested one,
\* with and without the store tag, with a Store key of their own, empty.
SampleRecords ==
  {<<Item(StoreNameKey, Scalar(<<"Diesel">>)),
     Item(<<"a">>, DictValue(<<Item(<<"b">>, Scalar(<<"5">>))>>))>>,
   <<Item(<<"c">>, Scalar(<<"7">>)),
     Item(StoreNameKey, Scalar(<<"Diesel">>))>>,
   AsDict(Placeholder(<<"a">>, "Diesel", 1)),
   <<Item(<<"b">>, ListOf(<<"1", "2">>)),
     Item(<<"a", ".", "b">>, Scalar(<<"6">>))>>,
   <<Item(<<"a", ".", "b">>, Scalar(<<"6">>)),
     Item(<<"a">>, DictValue(<<Item(<<"b">>, Scalar(<<"5">>))>>))>>,
   <<Item(StoreKey, Scalar(<<"X">>)),
     Item(StoreNameKey, Scalar(<<"Diesel">>))>>,
   <<Item(<<>>, DictValue(<<Item(<<"b">>, Scalar(<<"5">>))>>))>>,
   <<>>}

Batches == UNION {[1..n -> SampleRecords] : n \in 0..MaxBatch}

\* The window holds some batch and the export button is enabled: the done
\* handler has run, so is_searching is false; the stop flag is as the last
\* search left it.
InitRecords ==
  /\ search_type_var = "outbound"
  /\ search_field_var = "Client ID"
  /\ is_searching = FALSE
  /\ stop_event \in BOOLEAN
  /\ results_data \in Batches
  /\ api_queue = <<>>
  /\ search_button = "normal"
  /\ stop_button = "disabled"
  /\ refresh_button = "normal"
  /\ export_button = "normal"
  /\ poll_scheduled = TRUE
  /\ pc = [r \in Runs |-> "idle"]
  /\ args = [r \in Runs |-> NoArgs]
  /\ index = [r \in Runs |-> 1]
  /\ results = [r \in Runs |-> <<>>]
  /\ resps = [r \in Runs |-> <<>>]
  /\ pub = [r \in Runs |-> <<>>]
  /\ handled = [r \in Runs |-> <<>>]
  /\ sig = [r \in Runs |-> NoSig]
  /\ tree = NoTree
  /\ last_export = NoExport

\* line 358: update_results_table on the batch held
ShowResults ==
  /\ tree' = UpdateResultsTable(results_data)
  /\ UNCHANGED <<ui_vars, api_queue, poll_scheduled, worker_vars, last_export>>

\* line 156 and lines 439-475: the export button, on the batch held
ClickExport ==
  /\ export_button = "normal"
  /\ \E filepath \in FilePaths, io \in IoResults :
       last_export' = ExportToCsv(results_data, filepath, io)
  /\ UNCHANGED <<ui_vars, api_queue, poll_scheduled, worker_vars, tree>>

NextRecords ==
  \/ ShowResults
  \/ ClickExport

SpecRecords == InitRecords /\ [][NextRecords]_vars

\* ------------------------------------------------------------------ claims
Terminated(r) == pc[r] \in {"done", "dead"}

Live(r) == pc[r] \in {"start", "call"}

IsStopNotice(e) == e.type = "log" /\ e.msg = [text |-> "Search stopped by user."]

IsErrorLog(e, term) ==
  /\ e.type = "log"
  /\ "level" \in DOMAIN e
  /\ e.level = "ERROR"
  /\ "term" \in DOMAIN e.msg
  /\ e.msg.term = term

LogsThenDone(evs) ==
  /\ Len(evs) >= 1
  /\ evs[Len(evs)].type = "done"
  /\ \A k \in 1..(Len(evs) - 1) : evs[k].type = "log"

\* the batch of the done event worker r published
Batch(r) == pub[r][Len(pub[r])].results

Published(r) == pc[r] = "done" /\ LogsThenDone(pub[r])

Malformed(resp) == resp.kind = "http" /\ resp.status = 200 /\ resp.shape = "other"

HasRecord(batch, i) == \E k \in 1..Len(batch) : batch[k].at = i

\* C1: every run publishes zero or more log events and then exactly one
\* done event, whatever its remote calls end in: a thread that is still
\* running has published only log events, and a thread that has ended has
\* published log events followed by one done event.
C1_LogsThenOneDone ==
  \A r \in Runs :
    /\ Live(r) => \A k \in 1..Len(pub[r]) : pub[r][k].type = "log"
    /\ Terminated(r) => LogsThenDone(pub[r])

\* C2: a 200 response of unexpected shape for the term at position k is
\* treated as a transport failure: the thread goes on (it is not killed),
\* an error-level log about the term was published, and the local list
\* holds a synthetic error record for the term.
C2_MalformedTreatedAsFailure ==
  \A r \in Runs : \A k \in 1..Len(resps[r]) :
    Malformed(resps[r][k]) =>
      /\ pc[r] # "dead"
      /\ \E e \in 1..Len(pub[r]) : IsErrorLog(pub[r][e], args[r].terms[k])
      /\ \E j \in 1..Len(results[r]) :
           /\ results[r][j].at = k
           /\ "status_error" \in DOMAIN results[r][j]

\* C3 as stated: the batch of the done event holds at least one record for
\* every term of a non-empty term list.
C3_EveryTermHasRecord ==
  \A r \in Runs :
    Published(r) =>
      \A i \in 1..Len(args[r].terms) : HasRecord(Batch(r), i)

\* C3 amended: the batch of the done event holds at least one record for
\* every term whose processing the run began, which is every term of the
\* list unless the run published the stop notice; a record made for a term
\* without a payload carries that term.
C3_EveryBegunTermHasRecord ==
  \A r \in Runs :
    Published(r) =>
      /\ \A i \in 1..(index[r] - 1) : HasRecord(Batch(r), i)
      /\ (\A k \in 1..Len(pub[r]) : ~IsStopNotice(pub[r][k]))
           => index[r] - 1 = Len(args[r].terms)
      /\ \A k \in 1..Len(Batch(r)) :
           "status_error" \in DOMAIN Batch(r)[k]
             => Batch(r)[k].shipment_id_searched = args[r].terms[Batch(r)[k].at]

\* C3: a run cancelled after its first term: the batch has that term's
\* record and none for the term that was never begun.
C3_Witness ==
  \E r \in Runs :
    /\ Published(r)
    /\ index[r] = 2
    /\ Len(args[r].terms) = 2
    /\ HasRecord(Batch(r), 1)
    /\ ~HasRecord(Batch(r), 2)

\* C4: in the batch of the done event the records are in term order (so
\* the records of one term are contiguous), and the records of one windowed
\* search are in the order of the remote response.
C4_BatchInTermOrder ==
  \A r \in Runs :
    Published(r) =>
      \A j, k \in 1..Len(Batch(r)) :
        j < k =>
          /\ Batch(r)[j].at <= Batch(r)[k].at
          /\ (/\ Batch(r)[j].at = Batch(r)[k].at
              /\ "item" \in DOMAIN Batch(r)[j]
              /\ "item" \in DOMAIN Batch(r)[k])
               => Batch(r)[j].item < Batch(r)[k].item

\* C4: a batch with two records of one windowed search followed by a record
\* of the next term.
C4_Witness ==
  \E r \in Runs :
    /\ Published(r)
    /\ Len(Batch(r)) >= 3
    /\ Batch(r)[1] = Payload(args[r].store, 1, 1)
    /\ Batch(r)[2] = Payload(args[r].store, 1, 2)
    /\ Batch(r)[3].at = 2

\* C5: a worker that stop_search found before its first term (its list not
\* empty) makes no remote call: its next step publishes the stop notice and
\* then a done event with an empty batch.
C5_StopBeforeFirstTerm ==
  [][\A r \in Runs :
       (/\ sig[r] = [pc |-> "start", index |-> 1]
        /\ pc[r] = "start"
        /\ pc'[r] # "start"
        /\ Len(args[r].terms) >= 1)
         => /\ pc'[r] = "done"
            /\ pub'[r] = <<StopNotice(r), DoneEvent(<<>>, r)>>]_vars

C7_NoTermBegunAfterStop ==
  [][\A r \in Runs :
       sig[r] # NoSig =>
         ~(/\ pc'[r] = "call"
           /\ \/ pc[r] = "start"
              \/ pc[r] = "call" /\ index'[r] > index[r])]_vars

\* C8: at most one run_api_search worker is active at any time.
C8_AtMostOneWorker == Cardinality({r \in Runs : Live(r)}) <= 1

\* C9: start_search launches a worker only with a term list holding at
\* least one term, and every term of it is non-empty.
C9_WorkerHasTerms ==
  \A r \in Runs :
    pc[r] # "idle" =>
      /\ Len(args[r].terms) >= 1
      /\ \A i \in 1..Len(args[r].terms) : args[r].terms[i] # <<>>

\* the events of worker r in the queue, oldest first
OfRun(q, r) == SelectSeq(q, LAMBDA e : e.run = r)

\* C10: the consumer handles the events of a worker in the order the worker
\* published them, none lost and none twice: what was handled followed by
\* what waits in the queue is what was published; no event of a worker is
\* handled after its done event; and the next tick is always scheduled.
C10_DeliveredInPublishOrder ==
  /\ poll_scheduled
  /\ \A r \in Runs :
       /\ handled[r] \o OfRun(api_queue, r) = pub[r]
       /\ \A k \in 1..(Len(handled[r]) - 1) : handled[r][k].type = "log"

\* C10: the consumer has handled all the events of a finished run, the
\* done event last, while events of another worker wait in the queue.
C10_Witness ==
  \E r \in Runs :
    /\ Len(handled[r]) >= 3
    /\ handled[r][Len(handled[r])].type = "done"
    /\ api_queue # <<>>

\* a response that leaves the term unsatisfied: a transport failure, a
\* status other than 200, or a 200 whose result list is empty
Unsatisfied(resp) ==
  \/ resp.kind = "exception"
  \/ resp.kind = "http" /\ resp.status # 200
  \/ resp.kind = "http" /\ resp.status = 200 /\ resp.shape = "object" /\ resp.n = 0

RecordsAt(list, i) == SelectSeq(list, LAMBDA rec : rec.at = i)

\* C11: an unsatisfied term never aborts the run: the worker has gone on
\* past it, and its local list holds exactly one record for it, a synthetic
\* one carrying the term, an error reason and the store name.  With terms
\* at positions 1 and 2 under the point lookup answered 200 and 404, the
\* batch is the payload tagged with the store followed by the Not Found
\* record of the second term.
C11_UnsatisfiedTermRecorded ==
  \A r \in Runs :
    /\ \A k \in 1..Len(resps[r]) :
         Unsatisfied(resps[r][k]) =>
           /\ index[r] > k
           /\ pc[r] = "dead" => k < Len(resps[r])
           /\ Len(RecordsAt(results[r], k)) = 1
           /\ "status_error" \in DOMAIN RecordsAt(results[r], k)[1]
           /\ RecordsAt(results[r], k)[1].status_error
                \in {"Not Found", "Network Error"}
           /\ RecordsAt(results[r], k)[1].shipment_id_searched = args[r].terms[k]
           /\ RecordsAt(results[r], k)[1].store_name = args[r].store
    /\ (/\ Published(r)
        /\ IsPointLookup(args[r])
        /\ resps[r] = <<Http(200, "object", 1), Http(404, "none", 0)>>)
         => Batch(r) = <<[store_name |-> args[r].store, item |-> 1, at |-> 1],
                         [shipment_id_searched |-> args[r].terms[2],
                          status_error |-> "Not Found",
                          store_name |-> args[r].store, at |-> 2]>>

\* C11: the scenario: a finished point-lookup run of two terms answered
\* 200 and 404.
C11_Witness ==
  \E r \in Runs :
    /\ Published(r)
    /\ IsPointLookup(args[r])
    /\ resps[r] = <<Http(200, "object", 1), Http(404, "none", 0)>>
    /\ Len(Batch(r)) = 2

\* the level the classes of unsatisfied terms are to be logged at
ExpectedLevel(resp) ==
  IF resp.kind = "http" /\ (resp.status = 404 \/ resp.status = 200)
  THEN "WARN" ELSE "ERROR"

\* C12: under either strategy the step that receives an unsatisfying
\* response publishes first a notice of the level of its class: WARN for a
\* 404 and for an empty result list, ERROR for any other status and for a
\* transport failure.
C12_NoticeLevelByClass ==
  [][\A r \in Runs :
       (/\ pc[r] = "call"
        /\ Len(resps'[r]) = Len(resps[r]) + 1
        /\ Unsatisfied(resps'[r][Len(resps'[r])]))
         => /\ Len(pub'[r]) > Len(pub[r])
            /\ "level" \in DOMAIN pub'[r][Len(pub[r]) + 1]
            /\ pub'[r][Len(pub[r]) + 1].level
                 = ExpectedLevel(resps'[r][Len(resps'[r])])]_vars

\* C13: the request in flight is a point lookup exactly when the search is
\* outbound by Client ID; otherwise it is a windowed search whose query
\* parameters are startDate, endDate, search, pageSize and the parameter
\* named for the chosen field.
C13_RequestFollowsField ==
  \A r \in Runs :
    pc[r] = "call" =>
      LET req == Request(args[r], args[r].terms[index[r]]) IN
        /\ req.strategy = "point"
             <=> (args[r].search_type = "outbound"
                  /\ args[r].search_field = "Client ID")
        /\ req.strategy = "windowed" =>
             {"startDate", "endDate", "search", "pageSize",
              ApiSearchField(args[r].search_field)} \subseteq DOMAIN req.params

\* the requests worker r announced, and its progress notices
Gets(r) == SelectSeq(pub[r], LAMBDA e : e.type = "log" /\ "url" \in DOMAIN e.msg)

Progress(r) == SelectSeq(pub[r], LAMBDA e : e.type = "log" /\ "index" \in DOMAIN e.msg)

\* C14: within a run the terms are processed one after the other, once
\* each: the k-th call is for position k, every call but the last has
\* returned or failed before the next is issued, and the calls issued
\* exceed the calls ended by one exactly while a call is in flight.
C14_OneCallPerPosition ==
  \A r \in Runs :
    /\ Len(Gets(r)) = Len(resps[r]) + (IF pc[r] = "call" THEN 1 ELSE 0)
    /\ Len(Gets(r)) <= Len(args[r].terms)
    /\ Len(Progress(r)) = Len(Gets(r))
    /\ \A k \in 1..Len(Gets(r)) :
         /\ Gets(r)[k].msg.term = args[r].terms[k]
         /\ Progress(r)[k].msg.index = k
    /\ pc[r] = "call" => index[r] = Len(Gets(r))

\* C14: a finished run of two equal terms whose first call failed: two
\* calls were made, none repeated.
C14_Witness ==
  \E r \in Runs :
    /\ Published(r)
    /\ Len(resps[r]) = 2
    /\ resps[r][1] = Exception
    /\ args[r].terms[1] = args[r].terms[2]

\* the table has been made for the batch held
Shown == results_data # <<>> /\ tree # NoTree

NestedSample ==
  <<Item(StoreNameKey, Scalar(<<"Diesel">>)),
    Item(<<"a">>, DictValue(<<Item(<<"b">>, Scalar(<<"5">>))>>))>>

PlainSample ==
  <<Item(<<"c">>, Scalar(<<"7">>)), Item(StoreNameKey, Scalar(<<"Diesel">>))>>

\* C15: for a non-empty batch the columns of the table are distinct, Store
\* is the first, the others are the other flattened field names in
\* lexicographic order, and there is one row per record, in batch order,
\* with one value per column: the record's, or the empty value.
C15_TableColumnsAndRows ==
  Shown =>
    LET flat == FlatResults(results_data)
        cols == tree.columns
    IN  /\ \A i, j \in 1..Len(cols) : i # j => cols[i] # cols[j]
        /\ Len(cols) >= 1
        /\ cols[1] = StoreKey
        /\ {cols[n] : n \in 2..Len(cols)} = AllKeys(flat) \ {StoreKey}
        /\ \A n \in 2..(Len(cols) - 1) : StrLess(cols[n], cols[n + 1])
        /\ Len(tree.rows) = Len(results_data)
        /\ \A n \in 1..Len(tree.rows) :
             /\ Len(tree.rows[n].values) = Len(cols)
             /\ \A c \in 1..Len(cols) :
                  tree.rows[n].values[c]
                    = IF cols[c] \in Keys(flat[n])
                      THEN Lookup(flat[n], cols[c]) ELSE Empty

\* C15: the table of a batch of two records of different fields, one of
\* them without the store tag.
C15_Witness ==
  /\ Shown
  /\ Len(tree.rows) = 2
  /\ Len(tree.columns) >= 3
  /\ tree.rows[1].values[1] = Empty
  /\ tree.rows[2].values[1] # Empty

\* C16: the header of the file export_to_csv writes for a non-empty batch
\* is the column sequence update_results_table computes for it, the file
\* has one row per record in batch order, and a record lacking a header
\* field has the empty cell there; the batch of a record with a.b = 5 and
\* one without it has the header Store, a.b, ... and the second row's a.b
\* cell empty.
C16_ExportAgreesWithTable ==
  last_export.file.state = "written" =>
    LET flat == FlatResults(results_data)
        file == last_export.file
    IN  /\ file.header = UpdateResultsTable(results_data).columns
        /\ Len(file.rows) = Len(results_data)
        /\ \A n \in 1..Len(file.rows) :
             /\ Len(file.rows[n]) = Len(file.header)
             /\ \A c \in 1..Len(file.header) :
                  file.rows[n][c]
                    = IF file.header[c] \in Keys(flat[n])
                      THEN Lookup(flat[n], file.header[c]) ELSE Empty
        /\ results_data = <<NestedSample, PlainSample>> =>
             /\ file.header = <<StoreKey, <<"a", ".", "b">>, <<"c">>>>
             /\ file.rows[1][2] = Scalar(<<"5">>)
             /\ file.rows[2][2] = Empty

\* C16: the scenario's file has been written.
C16_Witness ==
  /\ last_export.file.state = "written"
  /\ results_data = <<NestedSample, PlainSample>>
  /\ Len(last_export.file.rows) = 2

\* C17: export_to_csv called while the batch held is empty asks for no
\* path, opens no file and writes none, and reports that there is no data.
C17_EmptyBatchNothingToExport ==
  (last_export # NoExport /\ results_data = <<>>) =>
    /\ last_export.report = [title |-> "No Data", cause |-> "none"]
    /\ ~last_export.asked
    /\ ~last_export.opened
    /\ last_export.file = NoFile

\* C17: the export button was pressed while the batch held was empty.
C17_Witness ==
  /\ results_data = <<>>
  /\ last_export.report.title = "No Data"

\* C18: a call of export_to_csv leaves results_data, is_searching and the
\* stop flag as they were, whether it succeeds or fails; a failure of open
\* or of a write is reported as an export error with its cause, a success
\* as a success.
C18_ExportLeavesSessionAlone ==
  [][last_export' # NoExport =>
       /\ results_data' = results_data
       /\ is_searching' = is_searching
       /\ stop_event' = stop_event
       /\ last_export'.io \in IoResults \ {"ok"} =>
            last_export'.report
              = [title |-> "Export Error", cause |-> last_export'.io]
       /\ last_export'.io = "ok" =>
            /\ last_export'.report.title = "Success"
            /\ last_export'.file.state = "written"]_vars

\* C18: an export of a held batch has failed in the middle of writing, the
\* stop flag of the last search still set.
C18_Witness ==
  /\ last_export.report.title = "Export Error"
  /\ last_export.file.state = "truncated"
  /\ results_data # <<>>
  /\ stop_event

\* C19: flattening a flattened record gives the same names and values in
\* the same order, and the table made of the flattened batch is the table
\* made of the batch.
C19_FlattenIdempotent ==
  /\ \A n \in 1..Len(results_data) :
       FlattenDict(FlattenDict(results_data[n])) = FlattenDict(results_data[n])
  /\ Shown => UpdateResultsTable(FlatResults(results_data)) = tree

\* C19: the table of a batch holding a nested record and a record with a
\* list and a dotted key.
C19_Witness ==
  /\ Shown
  /\ results_data[1] = NestedSample
  /\ Len(results_data) = 2
  /\ \E n \in 1..Len(results_data[2]) : results_data[2][n].v.kind = "list"

\* C20: every search that start_search has launched ends with its done
\* event consumed by process_api_queue, the session idle again and the
\* Search and Refresh buttons enabled.
C20_SearchReturnsToIdle ==
  \A r \in Runs :
    (pc[r] = "start") ~>
      (/\ pc[r] = "done"
       /\ handled[r] = pub[r]
       /\ ~is_searching
       /\ search_button = "normal"
       /\ refresh_button = "normal")

\* C21: the session flag tracks the worker: whenever is_searching is false
\* no run_api_search worker is running and no event of a run waits on
\* api_queue, and the Search button is enabled and the Stop button disabled.
C21_FlagTracksWorker ==
  ~is_searching =>
    /\ \A r \in Runs : ~Live(r)
    /\ api_queue = <<>>
    /\ search_button = "normal"
    /\ stop_button = "disabled"

\* a step in which worker r publishes the stop notice
CutShort(r) ==
  /\ Len(pub'[r]) >= Len(pub[r]) + 2
  /\ IsStopNotice(pub'[r][Len(pub'[r]) - 1])

\* C22: the stop flag does not leak between runs: while no search is active
\* the flag changes only by being cleared at the start of a search; a
\* worker is cut short only if a stop request was made during its own run;
\* and a stop request made during a worker's run stays set for as long as
\* that worker is running.
C22_StopFlagPerRun ==
  [][/\ (~is_searching /\ stop_event' # stop_event)
          => (is_searching' /\ ~stop_event')
     /\ \A r \in Runs :
          /\ (Live(r) /\ CutShort(r)) => sig[r] # NoSig
          /\ (Live(r) /\ sig[r] # NoSig) => stop_event']_vars

====
